---- MODULE Spec2Model ----
(***************************************************************************)
(* Model of the download scheduler of multithread.py: class MultiThread    *)
(* (__init__, add_package, fetch_packages).  One control thread runs       *)
(* fetch_packages; the transfers themselves progress inside the curl       *)
(* multi handle (mc.perform) and are reported back through mc.info_read.   *)
(*                                                                         *)
(* A task (remote, local) is identified by its submission number; the      *)
(* server of its remote URL (urlparse(remote).netloc) is netloc[task].     *)
(* A curl easy handle sc of self.mc.handles is identified by its index.    *)
(* sc.local and sc.remote (lines 228-229) are only printed; the task a      *)
(* handle is bound to is kept with its transfer in mc.                     *)
(***************************************************************************)
EXTENDS Naturals, Integers, Sequences, FiniteSets, TLC

\* ---- bounds of the model ----
MaxTasks == 3
NumServers == 2
MaxThreads == 2
MaxPerServer == 2
MaxRuns == 2

Servers == 1..NumServers

VARIABLES
    max_threads,        \* module global max_threads (line 58 / init_hook)
    threads_per_server, \* module global threads_per_server (line 59 / init_hook)
    url_queue,          \* self.url_queue: dict server -> list of tasks
    npackages,          \* self.npackages
    netloc,             \* netloc[t]: server of task t's remote URL
    fp,                 \* sc.fp of every handle: 0 is None, t the open file of task t
    sc_server,          \* sc.server of every handle (0: never set)
    mc,                 \* transfers added to self.mc and not yet removed
    msgs,               \* finished transfers whose message info_read has not returned yet
    closed,             \* self.mc and the handles have been closed (teardown ran)
    curllist,           \* local curllist: idle handles
    serverlist,         \* local serverlist: launch slots, one server id per slot
    processed, active, success, failed,   \* local counters of fetch_packages
    pc,                 \* position of the control thread
    run,                \* number of fetch_packages invocations so far
    launchlog,          \* history: the launches (task, handle) in order
    dequeued,           \* history: tasks popped from their server queue
    outcome,            \* history: outcome[t] is "none", "ok" or "err" (as reaped)
    openfailed,         \* history: tasks whose local file could not be opened
    owed,               \* history: handles released after a failure while tasks were still queued, not bound since
    startQueued,        \* history: number of queued tasks when the current invocation started
    logging             \* whether the history of launches and outcomes is being kept

vars == <<max_threads, threads_per_server, url_queue, npackages, netloc, fp,
          sc_server, mc, msgs, closed, curllist, serverlist,
          processed, active, success, failed, pc, run,
          launchlog, dequeued, outcome, owed, openfailed, startQueued, logging>>

cfgvars == <<max_threads, threads_per_server, logging>>
histvars == <<launchlog, dequeued, outcome, owed, openfailed, startQueued>>
counters == <<processed, active, success, failed>>

\* ---- helpers ----
Min(a, b) == IF a < b THEN a ELSE b

Range(s) == {s[i] : i \in 1..Len(s)}

RECURSIVE SumLen(_, _)
SumLen(q, S) ==
    IF S = {} THEN 0
    ELSE LET s == CHOOSE x \in S : TRUE IN Len(q[s]) + SumLen(q, S \ {s})

\* total number of tasks in the server queues
Queued(q) == SumLen(q, DOMAIN q)

\* all orders in which a set can be enumerated (iteration order of a dict)
Orders(S) == {o \in [1..Cardinality(S) -> S] : \A i, j \in 1..Cardinality(S) : o[i] = o[j] => i = j}

RECURSIVE Repeat(_, _)
Repeat(x, n) == IF n = 0 THEN <<>> ELSE <<x>> \o Repeat(x, n - 1)

\* the handles created by __init__: range(max_threads)
Handles == 1..max_threads

\* curllist = self.mc.handles[:]
RECURSIVE HandleList(_)
HandleList(n) == IF n = 0 THEN <<>> ELSE Append(HandleList(n - 1), n)

\* variant: every server gets threads_per_server slots whatever its queue length
SlotsFor_full(tps, qlen) == tps

\* variant: the per-server cap is forgotten, every queued task gets a slot
SlotsFor_nocap(tps, qlen) == qlen

\* thr_max = min(threads_per_server, len(self.url_queue[server]))
SlotsFor(tps, qlen) == Min(tps, qlen)

\* for server in self.url_queue: for i in range(thr_max): serverlist.append(server)
RECURSIVE BuildServerList(_, _, _)
BuildServerList(order, q, tps) ==
    IF order = <<>> THEN <<>>
    ELSE Repeat(Head(order), SlotsFor(tps, Len(q[Head(order)])))
         \o BuildServerList(Tail(order), q, tps)

\* variant: the main loop is entered even when nothing is left to process
LoopContinues_inclusive(p, n) == p <= n

\* variant: the main loop stops one task early
LoopContinues_early(p, n) == p + 1 < n

\* while processed < self.npackages
LoopContinues(p, n) == p < n

\* while curllist and serverlist
CanAdmit(cl, sl) == cl # <<>> /\ sl # <<>>

\* variant: pop() takes the newest task instead of the oldest
QueueHead_last(q) == q[Len(q)]

\* remote, local = self.url_queue[server].pop(0): the task returned
QueueHead(q) == Head(q)

\* variant: the task is read but left in the queue
QueueRest_keep(q) == q

\* remote, local = self.url_queue[server].pop(0): the queue left behind
QueueRest(q) == Tail(q)

\* variant: a reaped transfer restores its slot even when the queue is empty
RestoreSlot_always(sl, q, s) == Append(sl, s)

\* variant: a reaped transfer never restores its slot
RestoreSlot_never(sl, q, s) == sl

\* variant: a reaped transfer restores two slots
RestoreSlot_twice(sl, q, s) == IF Len(q[s]) > 0 THEN Append(Append(sl, s), s) ELSE sl

\* if len(self.url_queue[sc.server]) > 0: serverlist.append(sc.server)
RestoreSlot(sl, q, s) == IF Len(q[s]) > 0 THEN Append(sl, s) ELSE sl

\* variant: a reaped handle is put on the idle list twice
ReleaseWorker_twice(cl, w) == Append(Append(cl, w), w)

\* variant: a reaped handle is not put back on the idle list
ReleaseWorker_lost(cl, w) == cl

\* curllist.append(sc)
ReleaseWorker(cl, w) == Append(cl, w)

\* variant: the handle is popped before the empty-queue test
HandlesAfterSkip_popped(cl) == Tail(cl)

\* lines 214-216: `continue` is taken before curllist.pop(0) of line 218
HandlesAfterSkip(cl) == cl

\* ---- initial state: a MultiThread object just constructed ----
Init ==
    /\ max_threads \in 1..MaxThreads
    /\ threads_per_server \in 1..MaxPerServer
    /\ url_queue = <<>>
    /\ npackages = 0
    /\ netloc = <<>>
    /\ fp = [w \in 1..max_threads |-> 0]
    /\ sc_server = [w \in 1..max_threads |-> 0]
    /\ mc = {}
    /\ msgs = <<>>
    /\ closed = FALSE
    /\ curllist = <<>>
    /\ serverlist = <<>>
    /\ processed = 0 /\ active = 0 /\ success = 0 /\ failed = 0
    /\ pc = "idle"
    /\ run = 0
    /\ launchlog = <<>>
    /\ dequeued = {}
    /\ outcome = <<>>
    /\ owed = {}
    /\ openfailed = {}
    /\ startQueued = 0
    /\ logging = TRUE

\* ---- add_package(remote, local), the remote URL being on server s ----
add_package(s) ==
    /\ pc \in {"idle", "done"}
    /\ npackages < MaxTasks
    /\ url_queue' = [k \in (DOMAIN url_queue) \cup {s} |->
                        IF k = s
                        THEN Append(IF s \in DOMAIN url_queue THEN url_queue[s] ELSE <<>>,
                                    npackages + 1)
                        ELSE url_queue[k]]
    /\ npackages' = npackages + 1
    /\ netloc' = Append(netloc, s)
    /\ outcome' = Append(outcome, "none")
    /\ pc' = "idle"
    /\ UNCHANGED <<cfgvars, fp, sc_server, mc, msgs, closed, curllist,
                   serverlist, counters, run, launchlog, dequeued, owed, openfailed, startQueued>>

\* history kept when an invocation starts
RecordStart ==
    /\ startQueued' = Queued(url_queue)
    /\ UNCHANGED <<launchlog, dequeued, outcome, owed, openfailed>>

\* ---- fetch_packages, lines 199-210: build the lists, reset the counters ----
fetch_start(order) ==
    /\ pc \in {"idle", "done"}
    /\ run < MaxRuns
    /\ curllist' = HandleList(max_threads)
    /\ serverlist' = BuildServerList(order, url_queue, threads_per_server)
    /\ processed' = 0 /\ active' = 0 /\ success' = 0 /\ failed' = 0
    /\ pc' = "loop"
    /\ run' = run + 1
    /\ UNCHANGED <<cfgvars, url_queue, npackages, netloc, fp, sc_server,
                   mc, msgs, closed>>
    /\ RecordStart

\* ---- line 211: the test of the main loop ----
loop_test ==
    /\ pc = "loop"
    /\ pc' = IF LoopContinues(processed, npackages) THEN "admit" ELSE "cleanup"
    /\ UNCHANGED <<cfgvars, url_queue, npackages, netloc, fp, sc_server,
                   mc, msgs, closed, curllist, serverlist, counters, run, histvars>>

\* transfers of self.mc that are still running (no completion message yet)
Running == {h \in mc : \A i \in 1..Len(msgs) : msgs[i].sc # h.sc \/ msgs[i].task # h.task}

\* ---- lines 213-216: a popped slot whose server queue is empty is skipped ----
admit_skip ==
    /\ pc = "admit"
    /\ CanAdmit(curllist, serverlist)
    /\ url_queue[Head(serverlist)] = <<>>
    /\ serverlist' = Tail(serverlist)
    /\ curllist' = HandlesAfterSkip(curllist)
    /\ UNCHANGED <<cfgvars, url_queue, npackages, netloc, fp, sc_server,
                   mc, msgs, closed, counters, pc, run, histvars>>

\* history kept when task is bound to handle sc
RecordLaunch(task, sc) ==
    IF logging
    THEN /\ launchlog' = Append(launchlog, [task |-> task, sc |-> sc])
         /\ dequeued' = dequeued \cup {task}
         /\ owed' = owed \ {sc}
         /\ UNCHANGED <<outcome, openfailed, startQueued>>
    ELSE UNCHANGED histvars

\* ---- lines 213-230: a task is dequeued, bound to a handle and started ----
admit_launch ==
    /\ pc = "admit"
    /\ CanAdmit(curllist, serverlist)
    /\ url_queue[Head(serverlist)] # <<>>
    /\ ~closed
    /\ LET server == Head(serverlist)
           task == QueueHead(url_queue[server])
           sc == Head(curllist)
       IN /\ serverlist' = Tail(serverlist)
          /\ url_queue' = [url_queue EXCEPT ![server] = QueueRest(@)]
          /\ curllist' = Tail(curllist)
          /\ fp' = [fp EXCEPT ![sc] = task]
          /\ mc' = mc \cup {[sc |-> sc, task |-> task]}
          /\ active' = active + 1
          /\ sc_server' = [sc_server EXCEPT ![sc] = server]
          /\ RecordLaunch(task, sc)
    /\ UNCHANGED <<cfgvars, npackages, netloc, msgs, closed, processed, success,
                   failed, pc, run>>

\* ---- lines 213-219: open(local, 'wb') raises IOError; the exception leaves
\*      fetch_packages after the slot, the task and the handle were popped ----
admit_open_fails ==
    /\ pc = "admit"
    /\ CanAdmit(curllist, serverlist)
    /\ url_queue[Head(serverlist)] # <<>>
    /\ LET server == Head(serverlist)
           task == QueueHead(url_queue[server])
       IN /\ serverlist' = Tail(serverlist)
          /\ url_queue' = [url_queue EXCEPT ![server] = QueueRest(@)]
          /\ curllist' = Tail(curllist)
          /\ dequeued' = dequeued \cup {task}
          /\ openfailed' = openfailed \cup {task}
    /\ pc' = "ioerror"
    /\ UNCHANGED <<cfgvars, npackages, netloc, fp, sc_server, mc, msgs,
                   closed, counters, run, launchlog, outcome, owed, startQueued>>

\* ---- lines 213-220 on a handle closed by an earlier teardown: the file is
\*      opened, then sc.setopt raises pycurl.error (no curl handle) ----
admit_on_closed ==
    /\ pc = "admit"
    /\ CanAdmit(curllist, serverlist)
    /\ url_queue[Head(serverlist)] # <<>>
    /\ closed
    /\ LET server == Head(serverlist)
           task == QueueHead(url_queue[server])
           sc == Head(curllist)
       IN /\ serverlist' = Tail(serverlist)
          /\ url_queue' = [url_queue EXCEPT ![server] = QueueRest(@)]
          /\ curllist' = Tail(curllist)
          /\ fp' = [fp EXCEPT ![sc] = task]
          /\ dequeued' = dequeued \cup {task}
    /\ pc' = "curlerror"
    /\ UNCHANGED <<cfgvars, npackages, netloc, sc_server, mc, msgs,
                   closed, counters, run, launchlog, outcome, owed, openfailed, startQueued>>

\* ---- line 213: the admission loop ends (no idle handle or no slot) ----
admit_end ==
    /\ pc = "admit"
    /\ ~CanAdmit(curllist, serverlist)
    /\ pc' = "perform"
    /\ UNCHANGED <<cfgvars, url_queue, npackages, netloc, fp, sc_server,
                   mc, msgs, closed, curllist, serverlist, counters, run, histvars>>

\* ---- lines 232-235: mc.perform(); the transfers of F finish, in the order
\*      fin, each as success or failure ----
perform_progress ==
    /\ pc = "perform"
    /\ ~closed
    /\ \E F \in (SUBSET Running) \ {{}} :
         \E fin \in Orders(F) :
           \E res \in [F -> {"ok", "err"}] :
             msgs' = msgs \o [i \in 1..Cardinality(F) |->
                         [sc |-> fin[i].sc, task |-> fin[i].task, result |-> res[fin[i]]]]
    /\ pc' = "reap"
    /\ UNCHANGED <<cfgvars, url_queue, npackages, netloc, fp, sc_server,
                   mc, closed, curllist, serverlist, counters, run, histvars>>

\* ---- lines 232-235: mc.perform() returns and no transfer has finished ----
perform_idle ==
    /\ pc = "perform"
    /\ ~closed
    /\ pc' = "reap"
    /\ UNCHANGED <<cfgvars, url_queue, npackages, netloc, fp, sc_server,
                   mc, msgs, closed, curllist, serverlist, counters, run, histvars>>

\* ---- line 233 on a multi handle closed by an earlier teardown:
\*      mc.perform raises pycurl.error (no multi handle) ----
perform_on_closed ==
    /\ pc = "perform"
    /\ closed
    /\ pc' = "curlerror"
    /\ UNCHANGED <<cfgvars, url_queue, npackages, netloc, fp, sc_server,
                   mc, msgs, closed, curllist, serverlist, counters, run, histvars>>

\* ok_list / err_list of one info_read: the handles of the messages with that result
ResultList(batch, r) == SelectSeq(batch, LAMBDA m : m.result = r)

\* lines 240-260, serverlist: one RestoreSlot per reaped handle, in list order
RECURSIVE ReapServerList(_, _, _, _)
ReapServerList(sl, q, done, srv) ==
    IF done = <<>> THEN sl
    ELSE ReapServerList(RestoreSlot(sl, q, srv[Head(done).sc]), q, Tail(done), srv)

\* lines 240-260, curllist: one ReleaseWorker per reaped handle, in list order
RECURSIVE ReapCurlList(_, _)
ReapCurlList(cl, done) ==
    IF done = <<>> THEN cl
    ELSE ReapCurlList(ReleaseWorker(cl, Head(done).sc), Tail(done))

\* variant: the counter is overwritten by the batch size instead of increased
CountAfter_overwrite(c, lst) == Len(lst)

\* lines 261-262: success = success + len(ok_list), failed = failed + len(err_list)
CountAfter(c, lst) == c + Len(lst)

\* history kept when the messages of done (its failures being err_list) are reaped
RecordReap(done, err_list) ==
    IF logging
    THEN /\ outcome' = [t \in DOMAIN outcome |->
                          IF \E i \in 1..Len(done) : done[i].task = t
                          THEN (CHOOSE m \in Range(done) : m.task = t).result
                          ELSE outcome[t]]
         /\ owed' = owed \cup {m.sc : m \in {x \in Range(err_list) : Queued(url_queue) > 0}}
         /\ UNCHANGED <<launchlog, dequeued, openfailed, startQueued>>
    ELSE UNCHANGED histvars

\* lines 240-266: the reaping of the messages of batch (its ok_list, then its
\* err_list), rest being the messages that info_read has left queued
ReapBatch(batch, rest) ==
    LET num_q == Len(rest)
        ok_list == ResultList(batch, "ok")
        err_list == ResultList(batch, "err")
        done == ok_list \o err_list
        scs == {done[i].sc : i \in 1..Len(done)}
        s2 == CountAfter(success, ok_list)
        f2 == CountAfter(failed, err_list)
    IN /\ msgs' = rest
       /\ fp' = [w \in DOMAIN fp |-> IF w \in scs THEN 0 ELSE fp[w]]
       /\ mc' = {h \in mc : h.sc \notin scs}
       /\ serverlist' = ReapServerList(serverlist, url_queue, done, sc_server)
       /\ curllist' = ReapCurlList(curllist, done)
       /\ success' = s2
       /\ failed' = f2
       /\ active' = active - Len(ok_list) - Len(err_list)
       /\ processed' = f2 + s2
       /\ pc' = IF num_q = 0 THEN "select" ELSE "reap"
       /\ RecordReap(done, err_list)
       /\ UNCHANGED <<cfgvars, url_queue, npackages, netloc, sc_server,
                      closed, run>>

\* ---- lines 238-266: one mc.info_read() returning the first k messages, and
\*      the reaping of its ok_list, then of its err_list ----
reap ==
    /\ pc = "reap"
    /\ \E k \in (IF msgs = <<>> THEN {0} ELSE 1..Len(msgs)) :
         ReapBatch(SubSeq(msgs, 1, k), SubSeq(msgs, k + 1, Len(msgs)))

\* the messages of the transfers listed in fin, all with result r
Messages(fin, r) == [i \in 1..Len(fin) |-> [sc |-> fin[i].sc, task |-> fin[i].task, result |-> r]]

\* ---- lines 232-266 as one step: mc.perform() finishes the transfers of F,
\*      those of OK successfully, and the info_read that follows returns all
\*      their messages (ok_list in the order oks, err_list in the order errs) ----
perform_reap ==
    /\ pc = "perform"
    /\ ~closed
    /\ msgs = <<>>
    /\ \E F \in SUBSET Running :
         \E OK \in SUBSET F :
           \E oks \in Orders(OK) :
             \E errs \in Orders(F \ OK) :
               ReapBatch(Messages(oks, "ok") \o Messages(errs, "err"), <<>>)

\* ---- line 273: self.mc.select(1.0), then back to the loop test ----
select ==
    /\ pc = "select"
    /\ pc' = "loop"
    /\ UNCHANGED <<cfgvars, url_queue, npackages, netloc, fp, sc_server,
                   mc, msgs, closed, curllist, serverlist, counters, run, histvars>>

\* ---- lines 277-283: teardown: close every open file, every handle and mc ----
cleanup ==
    /\ pc = "cleanup"
    /\ fp' = [w \in DOMAIN fp |-> 0]
    /\ mc' = {}
    /\ msgs' = <<>>
    /\ closed' = TRUE
    /\ pc' = "done"
    /\ UNCHANGED <<cfgvars, url_queue, npackages, netloc, sc_server,
                   curllist, serverlist, counters, run, histvars>>

Next ==
    \/ \E s \in Servers : add_package(s)
    \/ \E order \in Orders(DOMAIN url_queue) : fetch_start(order)
    \/ loop_test
    \/ admit_skip
    \/ admit_launch
    \/ admit_open_fails
    \/ admit_on_closed
    \/ admit_end
    \/ perform_progress
    \/ perform_idle
    \/ perform_on_closed
    \/ reap
    \/ select
    \/ cleanup

Spec == Init /\ [][Next]_vars

\* every started transfer eventually finishes (CONNECTTIMEOUT / TIMEOUT, lines
\* 166-167), and the control thread keeps running
Step ==
    \/ loop_test \/ admit_skip \/ admit_launch \/ admit_open_fails \/ admit_on_closed
    \/ admit_end \/ perform_progress \/ perform_idle \/ perform_on_closed
    \/ reap \/ select \/ cleanup

FairSpec == Spec /\ WF_vars(Step) /\ SF_vars(perform_progress)

\* ---- the scenario of ten tasks: six on server 1 and four on server 2 are
\*      queued on a fresh scheduler with max_threads = 4 and
\*      threads_per_server = 2; every local file can be opened, and
\*      fetch_packages is called once ----
ScenarioInit ==
    /\ max_threads = 4
    /\ threads_per_server = 2
    /\ url_queue = [s \in {1, 2} |-> IF s = 1 THEN <<1, 2, 3, 4, 5, 6>> ELSE <<7, 8, 9, 10>>]
    /\ npackages = 10
    /\ netloc = <<1, 1, 1, 1, 1, 1, 2, 2, 2, 2>>
    /\ fp = [w \in 1..4 |-> 0]
    /\ sc_server = [w \in 1..4 |-> 0]
    /\ mc = {}
    /\ msgs = <<>>
    /\ closed = FALSE
    /\ curllist = <<>>
    /\ serverlist = <<>>
    /\ processed = 0 /\ active = 0 /\ success = 0 /\ failed = 0
    /\ pc = "idle"
    /\ run = 0
    /\ launchlog = <<>>
    /\ dequeued = {}
    /\ outcome = <<>>
    /\ owed = {}
    /\ openfailed = {}
    /\ startQueued = 0
    /\ logging = FALSE

ScenarioStep ==
    \/ loop_test \/ admit_skip \/ admit_launch \/ admit_end
    \/ perform_reap \/ select \/ cleanup

ScenarioNext ==
    \/ \E order \in Orders(DOMAIN url_queue) : run = 0 /\ fetch_start(order)
    \/ ScenarioStep

ScenarioSpec ==
    ScenarioInit /\ [][ScenarioNext]_vars

TypeOK ==
    /\ pc \in {"idle", "loop", "admit", "perform", "reap", "select", "cleanup", "done", "ioerror", "curlerror"}
    /\ npackages \in 0..MaxTasks
    /\ active \in Int /\ processed \in Nat /\ success \in Nat /\ failed \in Nat

\* ---- observations used by the properties ----
\* number of transfers in flight on server s
ActiveOn(s) == Cardinality({h \in mc : netloc[h.task] = s})

\* number of serverlist entries (launch slots) of server s
ReadyFor(s) == Cardinality({i \in 1..Len(serverlist) : serverlist[i] = s})

\* a fetch_packages invocation is in progress
InRun == pc \in {"loop", "admit", "perform", "reap", "select", "cleanup"}

\* tasks reaped with result r
Reaped(r) == {t \in 1..npackages : outcome[t] = r}

\* indices of launchlog at which task t was launched
LaunchesOf(t) == {i \in 1..Len(launchlog) : launchlog[i].task = t}

\* C1: at any time the number of transfers in flight, and the active counter,
\* are at most max_threads (so with max_threads = 1 at most one transfer is in flight).
C1_GlobalCap == Cardinality(mc) <= max_threads /\ active <= max_threads

\* the global cap binds: every handle is busy while a slot and a task are waiting
C1_Witness ==
    /\ Cardinality(mc) = max_threads
    /\ active = max_threads
    /\ serverlist # <<>>
    /\ url_queue[Head(serverlist)] # <<>>
    /\ pc = "perform"

\* C2: for every server, its serverlist entries plus its transfers in flight
\* never exceed threads_per_server.
C2_PerServerCap == \A s \in Servers : ReadyFor(s) + ActiveOn(s) <= threads_per_server

\* the per-server cap binds: a server has threads_per_server transfers in
\* flight, more tasks queued and a handle idle
C2_Witness ==
    \E s \in DOMAIN url_queue :
        /\ ActiveOn(s) = threads_per_server
        /\ url_queue[s] # <<>>
        /\ curllist # <<>>
        /\ pc = "perform"

\* C3: when fetch_packages has returned, success + failed equals the number
\* of submitted tasks, active is 0 and every server queue is empty.
C3_Return ==
    pc = "done" =>
        /\ success + failed = npackages
        /\ active = 0
        /\ \A s \in DOMAIN url_queue : url_queue[s] = <<>>

\* a run over three tasks returned with both successes and failures
C3_Witness == pc = "done" /\ npackages = 3 /\ success > 0 /\ failed > 0

\* C4: the first fetch_packages invocation on a scheduler, once in its main
\* loop, eventually leaves it and returns through the teardown (DRAINED),
\* given that every started transfer eventually finishes.
C4_Drains == (pc = "loop" /\ run = 1) ~> (pc = "done")

\* C5: the tasks of one server are launched in the order in which
\* add_package submitted them.
C5_LaunchFIFO ==
    \A i, j \in 1..Len(launchlog) :
        (i < j /\ netloc[launchlog[i].task] = netloc[launchlog[j].task])
            => launchlog[i].task < launchlog[j].task

\* two tasks of one server were launched one after the other while a third
\* task of that server was still queued at the first launch
C5_Witness ==
    \E i, j \in 1..Len(launchlog) :
        /\ i < j
        /\ netloc[launchlog[i].task] = netloc[launchlog[j].task]
        /\ \E t \in 1..npackages :
              netloc[t] = netloc[launchlog[i].task] /\ t > launchlog[j].task

\* C6 as stated: for every threads_per_server, a task of a server is reaped
\* no later than any task of that server submitted after it.
C6_CompleteFIFO ==
    \A a, b \in 1..npackages :
        (a < b /\ netloc[a] = netloc[b] /\ outcome[b] # "none") => outcome[a] # "none"

\* C6 amended: with threads_per_server = 1 the tasks of a server are reaped
\* in submission order.
C6_CompleteFIFO_OneSlot == threads_per_server = 1 => C6_CompleteFIFO

\* with one slot per server, two tasks of one server were both reaped
C6_Witness ==
    /\ threads_per_server = 1
    /\ max_threads = 2
    /\ \E a, b \in 1..npackages :
          a < b /\ netloc[a] = netloc[b] /\ outcome[a] # "none" /\ outcome[b] # "none"

\* C7: a task is launched at most once, a dequeued task is in no server queue
\* again, a failed task is counted in failed and not launched again, and at
\* return every submitted task has been launched exactly once.
C7_NoRetry ==
    /\ \A t \in 1..npackages : Cardinality(LaunchesOf(t)) <= 1
    /\ \A t \in dequeued : \A s \in DOMAIN url_queue : t \notin Range(url_queue[s])
    /\ \A t \in 1..npackages : \A s, u \in DOMAIN url_queue :
          \A i \in 1..Len(url_queue[s]) : \A j \in 1..Len(url_queue[u]) :
              (url_queue[s][i] = t /\ url_queue[u][j] = t) => (s = u /\ i = j)
    /\ run = 1 => failed = Cardinality(Reaped("err"))
    /\ \A t \in Reaped("err") : t \in dequeued /\ \A h \in mc : h.task # t
    /\ pc = "done" => \A t \in 1..npackages : Cardinality(LaunchesOf(t)) = 1

\* a run returned in which a transfer failed and another task was launched
\* after that failure had been reaped
C7_Witness ==
    /\ pc = "done"
    /\ npackages >= 2
    /\ \E t \in Reaped("err") : \E u \in 1..npackages :
          \A i \in LaunchesOf(t) : \A j \in LaunchesOf(u) : i < j

\* C8: a task whose local file cannot be opened is absorbed like a transfer
\* failure: the run is not aborted, the task is counted in failed and the
\* handle taken for it is idle again or bound to another transfer.
C8_OpenFailureAbsorbed ==
    openfailed # {} =>
        /\ pc # "ioerror"
        /\ failed >= Cardinality(openfailed)
        /\ Len(curllist) + Cardinality(mc) = max_threads

\* C9: every invocation starts from zeroed counters, and the total the main
\* loop runs against is the number of tasks queued when the invocation started.
C9_FreshRun ==
    InRun => (npackages = startQueued /\ processed = success + failed)

\* C10 accounting: in the first run failed counts exactly the transfers reaped
\* as failures and success exactly those reaped as successes.
C10_Accounting ==
    run = 1 => /\ failed = Cardinality(Reaped("err"))
               /\ success = Cardinality(Reaped("ok"))

\* C10 release: outside an aborted run every handle is either on the idle
\* list, exactly once, or bound to exactly one transfer in flight.
C10_Released ==
    (run >= 1 /\ pc \notin {"ioerror", "curlerror"}) =>
        \A w \in Handles :
            Cardinality({i \in 1..Len(curllist) : curllist[i] = w})
              + Cardinality({h \in mc : h.sc = w}) = 1

\* C10 reuse: at return no handle that was released after a failure, while
\* tasks were still queued, has stayed unbound since.
C10_Reused == pc = "done" => owed = {}

\* C10 as stated: a failed transfer adds one to failed and nothing to success,
\* its handle is idle again, and if tasks remained to be launched the same
\* handle is bound to a later task, for every max_threads.
C10_FailureReuse == C10_Accounting /\ C10_Released /\ C10_Reused

\* C10 amended: the same handle is certain to be bound to a later task only
\* when it is the only handle (max_threads = 1).
C10_FailureReuse_OneHandle ==
    C10_Accounting /\ C10_Released /\ (max_threads = 1 => C10_Reused)

\* with one handle, a run returned in which a transfer failed and the same
\* handle then ran a later task
C10_Witness ==
    /\ max_threads = 1
    /\ pc = "done"
    /\ \E i, j \in 1..Len(launchlog) :
          /\ i < j
          /\ outcome[launchlog[i].task] = "err"
          /\ launchlog[i].sc = launchlog[j].sc

\* number of tasks still queued for server s (0 when s has no queue)
QueueLen(s) == IF s \in DOMAIN url_queue THEN Len(url_queue[s]) ELSE 0

\* number of tasks submitted for server s
TasksOf(s) == Cardinality({t \in 1..npackages : netloc[t] = s})

\* C12: with no task submitted, fetch_packages launches nothing, never enters
\* the admission / perform / reap part of the loop, and returns through the
\* teardown with success = 0, failed = 0 and active = 0.
C12_ZeroTasks ==
    (npackages = 0 /\ run >= 1) =>
        /\ pc \in {"loop", "cleanup", "done"}
        /\ success = 0 /\ failed = 0 /\ active = 0 /\ processed = 0
        /\ mc = {} /\ launchlog = <<>> /\ serverlist = <<>>
        /\ \A w \in Handles : fp[w] = 0

\* fetch_packages has returned and no task was ever submitted
C12_Witness == npackages = 0 /\ pc = "done" /\ closed

\* C13 as stated: for every server, the serverlist entries never exceed
\* min(threads_per_server, tasks still queued for it).
C13_ReadyWithinQueue ==
    \A s \in Servers : ReadyFor(s) <= Min(threads_per_server, QueueLen(s))

\* C13 amended: for every server, the serverlist entries plus the transfers in
\* flight never exceed min(threads_per_server, tasks submitted for it), and
\* while a run has dequeued nothing the entries are within the queue length.
C13_ReadyWithinSubmitted ==
    /\ \A s \in Servers : ReadyFor(s) + ActiveOn(s) <= Min(threads_per_server, TasksOf(s))
    /\ (InRun /\ Queued(url_queue) = startQueued) =>
          \A s \in Servers : ReadyFor(s) <= QueueLen(s)

\* a server holds more serverlist entries than it has tasks left, after a reap
C13_Witness ==
    \E s \in Servers :
        /\ QueueLen(s) > 0
        /\ ReadyFor(s) > QueueLen(s)
        /\ processed > 0
        /\ pc = "select"

\* C14: at the start of a run, before anything is dequeued, serverlist holds
\* for every server exactly min(threads_per_server, queue length) entries, and
\* no entry of anything that is not a queued server.
C14_InitialSlots ==
    (InRun /\ Queued(url_queue) = startQueued /\ pc = "loop") =>
        /\ \A s \in Servers : ReadyFor(s) = Min(threads_per_server, QueueLen(s))
        /\ Range(serverlist) \subseteq DOMAIN url_queue

\* a run starts with one server shorter than threads_per_server, which gets
\* its queue length, next to a server that gets threads_per_server
C14_Witness ==
    /\ pc = "loop" /\ run = 1 /\ Queued(url_queue) = startQueued
    /\ threads_per_server = 2
    /\ \E s, u \in Servers :
          /\ QueueLen(s) = 1 /\ ReadyFor(s) = 1
          /\ QueueLen(u) = 2 /\ ReadyFor(u) = 2

\* C15: a reap step appends every reaped handle to curllist and adds, for
\* every server, one serverlist entry per reaped transfer of that server if
\* its queue is non-empty and none if it is empty; no other step of a run
\* adds a serverlist entry.
C15_ReapRestores ==
    [][ /\ pc = "reap" =>
            /\ \A s \in Servers :
                  (ReadyFor(s))' - ReadyFor(s) =
                      IF QueueLen(s) > 0 THEN ActiveOn(s) - (ActiveOn(s))' ELSE 0
            /\ Len(curllist') - Len(curllist) = Cardinality(mc) - Cardinality(mc')
            /\ \A h \in mc \ mc' : h.sc \in Range(curllist') /\ h.sc \notin Range(curllist)
        /\ (InRun /\ pc # "reap") =>
            \A s \in Servers : (ReadyFor(s))' <= ReadyFor(s)
      ]_vars

\* transfers were reaped both as success and as failure, a slot was restored
\* for a server with queued tasks and every handle is idle again
C15_Witness ==
    /\ pc = "select"
    /\ success > 0 /\ failed > 0
    /\ Len(curllist) = max_threads
    /\ \E s \in Servers : ReadyFor(s) > 0 /\ QueueLen(s) > 0

\* C16: popping a serverlist entry whose server queue is empty removes that
\* entry and nothing else: idle handles, queues, transfers and counters are
\* unchanged and the admission loop goes on.
C16_SkipFrame ==
    [][ (pc = "admit" /\ CanAdmit(curllist, serverlist)
            /\ url_queue[Head(serverlist)] = <<>>) =>
            /\ serverlist' = Tail(serverlist)
            /\ pc' = "admit"
            /\ UNCHANGED <<curllist, url_queue, mc, msgs, fp,
                           processed, success, failed, active>>
      ]_vars

\* the admission loop is about to pop an entry of a server whose queue is
\* empty, while a handle is idle and a transfer is in flight
C16_Witness ==
    /\ pc = "admit"
    /\ CanAdmit(curllist, serverlist)
    /\ url_queue[Head(serverlist)] = <<>>
    /\ mc # {}

\* C17: during a run processed = success + failed and processed never exceeds
\* the number of submitted tasks; the counters never decrease; the loop test
\* leaves the loop exactly when processed equals that number.
C17_Counters ==
    /\ [](InRun => (processed = success + failed /\ processed <= npackages))
    /\ [][ /\ (InRun /\ InRun') =>
                (success' >= success /\ failed' >= failed /\ processed' >= processed)
           /\ pc = "loop" => (pc' = "cleanup" <=> processed = npackages)
           /\ pc' = "cleanup" => pc \in {"loop", "cleanup"}
         ]_vars

\* the loop test is reached with every task processed, after successes and failures
C17_Witness ==
    pc = "loop" /\ processed = npackages /\ npackages = 3 /\ success > 0 /\ failed > 0

\* handle w is idle: once on curllist, bound to no transfer, no open file
IsIdle(w) ==
    /\ Cardinality({i \in 1..Len(curllist) : curllist[i] = w}) = 1
    /\ \A h \in mc : h.sc # w
    /\ fp[w] = 0

\* handle w is active: off curllist, bound to exactly one transfer, whose file is open
IsActive(w) ==
    /\ w \notin Range(curllist)
    /\ Cardinality({h \in mc : h.sc = w}) = 1
    /\ \A h \in mc : h.sc = w => fp[w] = h.task

\* C18 (worker states): inside a run and at its return every handle is either
\* idle or active, so idle + active = max_threads.
C18_IdleOrActive ==
    (InRun \/ pc = "done") =>
        /\ \A w \in Handles : IsIdle(w) # IsActive(w)
        /\ Len(curllist) + Cardinality(mc) = max_threads

\* C18: every handle is idle or active, and once fetch_packages has been left,
\* on whatever path, every output file that was opened has been closed.
C18_WorkerStates ==
    /\ C18_IdleOrActive
    /\ pc \in {"done", "ioerror", "curlerror"} => \A w \in Handles : fp[w] = 0

\* C19: during a run the tasks still queued, the active transfers and the
\* processed tasks add up to the tasks queued at the start of the run, and
\* the active counter is the number of transfers in flight.
C19_Conservation ==
    InRun => /\ Queued(url_queue) + active + processed = startQueued
             /\ active = Cardinality(mc)
             /\ active = Cardinality({w \in Handles : \E h \in mc : h.sc = w})

\* in the middle of a run tasks are queued, in flight and processed at once
C19_Witness ==
    /\ InRun
    /\ Queued(url_queue) > 0 /\ active > 0 /\ processed > 0

\* C20: when an admission phase has just ended, no server has both a queued
\* task and fewer than threads_per_server transfers in flight while a handle
\* is idle.
C20_WorkConserving ==
    pc = "perform" =>
        ~ \E s \in Servers :
              /\ QueueLen(s) > 0
              /\ ActiveOn(s) < threads_per_server
              /\ curllist # <<>>

\* after some reaping an admission phase ended with a handle idle and tasks
\* queued, the server of those tasks being at its cap
C20_Witness ==
    /\ pc = "perform"
    /\ processed > 0
    /\ curllist # <<>>
    /\ \E s \in Servers : QueueLen(s) > 0 /\ ActiveOn(s) = threads_per_server

====
